---- MODULE Spec2Model ----
(***************************************************************************)
(* whisper-dictation: the hotkey state machine (src/src/hotkey_manager.py) *)
(* driving the audio capture lifecycle (src/src/audio_recorder.py) through *)
(* the application callbacks (src/src/app.py).                             *)
(*                                                                         *)
(* Threads: "L" the pynput listener thread (_on_press/_on_release and the  *)
(* callbacks they call), "C" the control thread (_cleanup), "W" the        *)
(* threading.Timer thread of the max-duration watchdog; the PortAudio      *)
(* callback thread is the action audio_callback.                           *)
(*                                                                         *)
(* The HotkeyManager lock sections contain only assignments, so each is    *)
(* one step; a section that selects a callback keeps the lock (hk_lock)    *)
(* until leave_lock, the end of its with-block.  The AudioRecorder lock is *)
(* a variable, because start_recording opens and starts the stream while   *)
(* it holds the lock and the audio callback runs without it.               *)
(*                                                                         *)
(* Specifications: Spec (the application), SpecFair (the application with  *)
(* fair scheduling of the threads), SpecRecorder and SpecWatchdog (a       *)
(* direct caller of the AudioRecorder methods), SpecFrames (the same       *)
(* caller with the origin of every buffered frame recorded), SpecDuration  *)
(* (one session ended around the minimum duration), SpecKeys (the listener *)
(* thread alone), SpecVariants (a keyboard that reports modifiers by side) *)
(* and SpecOrder (one activation attempt: no combination key released).    *)
(*                                                                         *)
(* Time is abstracted: an armed timer may fire at any moment.  One timer   *)
(* thread runs at a time (a timer fires only when "W" is idle), and        *)
(* _cancel_max_duration_timer is one step.  listener.join(timeout=1.0)     *)
(* may give up, so stop_listening does not wait for a running handler.     *)
(***************************************************************************)
EXTENDS Integers, Sequences, FiniteSets, TLC

\* ---------------------------------------------------------------- bounds
MaxEvents == 4        \* key events delivered to the listener
MaxLate == 0          \* of these, events still handled once stop_listening has begun
MaxChunks == 8        \* frames the capture buffer holds at most
DurSpread == 12       \* bytes below and above the duration threshold that are tried
MaxCalls == 3         \* recorder methods a direct caller invokes
MaxKeyEvents == 5     \* key events delivered when only the listener thread runs
MaxFairEvents == 3    \* key events where every call is followed to its return
MaxWatchdogCalls == 4 \* recorder methods invoked where the watchdog callback is varied

\* ------------------------------------------------------- program constants
SAMPLE_RATE == 16000
CHUNK_SIZE == 1024
\* MIN_RECORDING_DURATION = 0.5 as the fraction MinDurNum / MinDurDen
MinDurNum == 1
MinDurDen == 2

\* Key.alt_l, Key.alt_r, Key.alt, Key.space, Key.esc as the listener reports them
SPACE_KEYCODE == 49
RawKeys == {"alt", "alt_l", "alt_r", "space", "esc"}
DEFAULT_HOTKEY == {"alt", "space"}
hotkey == DEFAULT_HOTKEY
Key_esc == "esc"

Threads == {"L", "C", "W"}

VARIABLES
  hk_is_recording,   \* HotkeyManager._is_recording  (TRUE = Armed)
  pressed_keys,      \* HotkeyManager._pressed_keys
  listener,          \* HotkeyManager._listener is attached and alive
  hk_lock,           \* holder of HotkeyManager._lock, or "none"
  is_recording,      \* AudioRecorder._is_recording  (TRUE = Recording)
  stream,            \* AudioRecorder._stream: "none", "open" (not started), "active"
  buffer,            \* AudioRecorder._buffer: sequence of chunk lengths in bytes
  timer_ref,         \* AudioRecorder._max_duration_timer is not None
  timer_armed,       \* a started threading.Timer that has neither fired nor been cancelled
  lock,              \* holder of AudioRecorder._lock, or "none"
  pc,                \* position of each thread
  seen,              \* per thread: the session its stop_recording saw Recording
  session,           \* number of start_recording calls that reached Recording
  artifacts,         \* files written by _save_to_temp_file: <<session, bytes>>
  cancelled,         \* sessions that were Recording when cancel_recording was entered
  sl_during_start,   \* stop_listening found the engine Armed with on_record_start still running
  trace,             \* callbacks invoked so far: <<thread, signal>>
  held,              \* normalized keys whose last event since the last clear() was a press
  budget,            \* key events the listener will still deliver
  handed,            \* files given to a transcription thread: <<target, session>>
  on_max_duration,   \* AudioRecorder._on_max_duration: "none", "app" or "raises"
  timer_of,          \* session whose start_recording created _max_duration_timer, 0 if None
  w_timer,           \* session whose timer last fired (it runs on thread "W")
  swallowed,         \* last call of _intercept_event: <<raw key, event suppressed>>
  trace_frames,      \* the frame history below is recorded (only in SpecFrames)
  origin,            \* per element of _buffer: <<session whose stream delivered it, its number>>
  total,             \* per stream that was started: the frames it has delivered
  written            \* per element of artifacts: the frames joined into the file

vars == <<hk_is_recording, pressed_keys, listener, hk_lock, is_recording, stream, buffer,
          timer_ref, timer_armed, lock, pc, seen, session, artifacts, cancelled,
          sl_during_start, trace, held, budget, handed, on_max_duration,
          timer_of, w_timer, swallowed, trace_frames, origin, total, written>>

hkVars == <<hk_is_recording, pressed_keys, listener, hk_lock>>
recVars == <<is_recording, stream, buffer, timer_ref, timer_armed, lock>>
histVars == <<seen, session, artifacts, cancelled, sl_during_start, handed>>
cfgVars == <<on_max_duration>>
hookVars == <<swallowed>>
timerVars == <<timer_of, w_timer>>
frameVars == <<trace_frames, origin, total, written>>

\* ------------------------------------------------------------ pure helpers

\* faulty variant of normalize_key: a variant is kept as it is
normalize_key_identity(key) ==
  key

\* _KEY_NORMALIZATIONS and HotkeyManager._normalize_key
KEY_NORMALIZATIONS ==
  [k \in {"alt_l", "alt_r"} |-> "alt"]

normalize_key(key) ==
  IF key \in DOMAIN KEY_NORMALIZATIONS THEN KEY_NORMALIZATIONS[key] ELSE key

RECURSIVE SumLen(_)
SumLen(s) == IF s = <<>> THEN 0 ELSE Head(s) + SumLen(Tail(s))

\* AudioRecorder._calculate_duration, in samples (duration = samples / SAMPLE_RATE)
calculate_samples(buf) ==
  IF buf = <<>> THEN 0 ELSE SumLen(buf) \div 2

\* kCGKeyboardEventKeycode of a raw key event (macOS virtual key codes)
keycode(key) ==
  CASE key = "space" -> 49
    [] key = "esc" -> 53
    [] key = "alt" -> 58
    [] key = "alt_l" -> 58
    [] key = "alt_r" -> 61

\* _intercept_event lines 169-185: whether the event is suppressed (None is
\* returned), given the engine state read under the lock and whether the
\* Quartz import and call succeed
suppresses(recording, key, quartz) ==
  recording /\ quartz /\ keycode(key) = SPACE_KEYCODE

\* faulty variant of TooShort: a recording exactly at the minimum is discarded
TooShort_inclusive(buf) ==
  calculate_samples(buf) * MinDurDen <= MinDurNum * SAMPLE_RATE

\* duration < MIN_RECORDING_DURATION in stop_recording
TooShort(buf) ==
  calculate_samples(buf) * MinDurDen < MinDurNum * SAMPLE_RATE

\* faulty variant of press_callback: ESC cancels in any state
press_callback_cancel_when_idle(recording, key, pressed) ==
  IF key = Key_esc THEN "cancel"
  ELSE IF ~recording /\ hotkey \subseteq pressed THEN "start"
  ELSE "none"

\* faulty variant of press_callback: the ESC check is missing
press_callback_drop_cancel(recording, key, pressed) ==
  IF ~recording /\ hotkey \subseteq pressed THEN "start" ELSE "none"

\* _on_press lines 204-213: which callback the press selects, given the state
\* before it and the pressed set after the key was added
press_callback(recording, key, pressed) ==
  IF recording /\ key = Key_esc THEN "cancel"
  ELSE IF ~recording /\ hotkey \subseteq pressed THEN "start"
  ELSE "none"

\* faulty variant of release_stops: tests the raw key, not the normalized one
release_stops_raw_key(recording, key) ==
  recording /\ key \in hotkey

\* _on_release line 241: the release of a hotkey key while recording stops it
release_stops(recording, key) ==
  recording /\ normalize_key(key) \in hotkey

\* faulty variant of discard_key: discards the raw key
discard_raw_key(pressed, key) ==
  pressed \ {key}

\* _on_release line 246: self._pressed_keys.discard(normalized)
discard_key(pressed, key) ==
  pressed \ {normalize_key(key)}

\* faulty variant of state_after_failed_start: the state is left as it was
state_after_failed_start_kept(recording) == recording

\* _on_press line 227: the state forced after a failed on_record_start
state_after_failed_start(recording) == FALSE

Goto(t, p) == pc' = [pc EXCEPT ![t] = p]

\* the positions at the end of a section under HotkeyManager._lock that has
\* selected a callback, and the position of that callback's call
AfterLock ==
  [p \in {"lk_start", "lk_cancel", "lk_stop", "lk_sl"} |->
     CASE p = "lk_start" -> "cb_start"
       [] p = "lk_cancel" -> "cb_cancel"
       [] p = "lk_stop" -> "cb_stop"
       [] p = "lk_sl" -> "sl_cb"]

\* positions of the listener thread between _on_press releasing its lock with
\* callback_to_call = "start" and on_record_start returning
InOnRecordStart == {"cb_start", "sr_enter", "sr_open", "sr_set", "sr_timer", "exc_device"}

\* where stop_recording returns None to: _on_record_stop called from
\* _on_release (L) or from stop_listening (C), _on_max_duration (W, which sets
\* the idle icon and returns: lines 281-283)
AfterStop(t) ==
  CASE t = "L" -> "ret_stop"
    [] t = "C" -> "sl_detach"
    [] t = "W" -> "idle"

\* where stop_recording returns a path to, in the same callbacks
AfterSave(t) ==
  CASE t = "L" -> "ret_path"
    [] t = "C" -> "sl_path"
    [] t = "W" -> "max_path"

\* where a callback that returned normally leaves its thread
CallbackDone(t) ==
  CASE t = "L" -> "idle"
    [] t = "C" -> "sl_detach"
    [] t = "W" -> "idle"

\* faulty variant of downstream: the watchdog path bypasses the transcription
downstream_watchdog_differs(t) ==
  IF t = "W" THEN "none" ELSE "_run_transcription"

\* the thread target that receives the saved file: app._on_record_stop lines
\* 257-262 (L, C) and app._on_max_duration lines 304-309 (W)
downstream(t) == "_run_transcription"

\* where cancel_recording returns to: _on_cancel (L), _cleanup (C)
AfterCancel(t) ==
  CASE t = "L" -> "ret_cancel"
    [] t = "C" -> "done"
    [] t = "W" -> "idle"

Init ==
  /\ hk_is_recording = FALSE
  /\ pressed_keys = {}
  /\ listener = TRUE
  /\ hk_lock = "none"
  /\ is_recording = FALSE
  /\ stream = "none"
  /\ buffer = <<>>
  /\ timer_ref = FALSE
  /\ timer_armed = FALSE
  /\ lock = "none"
  /\ pc = [t \in Threads |-> "idle"]
  /\ seen = [t \in Threads |-> 0]
  /\ session = 0
  /\ artifacts = <<>>
  /\ cancelled = {}
  /\ sl_during_start = FALSE
  /\ trace = <<>>
  /\ held = {}
  /\ budget = MaxEvents
  /\ handed = {}
  /\ on_max_duration = "app"
  /\ swallowed = <<"none", FALSE>>
  /\ trace_frames = FALSE
  /\ origin = <<>>
  /\ total = <<>>
  /\ written = <<>>
  /\ timer_of = 0
  /\ w_timer = 0

\* ------------------------------------------------ HotkeyManager, listener thread

\* faulty variant of on_press: key repeats are not filtered
on_press_no_repeat_filter(key) ==
  /\ pc["L"] = "idle"
  /\ listener
  /\ hk_lock = "none"
  /\ budget > 0
  /\ budget' = budget - 1
  /\ held' = held \cup {normalize_key(key)}
  /\ LET normalized == normalize_key(key) IN
       IF FALSE
       THEN UNCHANGED <<pressed_keys, hk_is_recording, pc, hk_lock>>
       ELSE /\ pressed_keys' = pressed_keys \cup {normalized}
            /\ LET callback_to_call ==
                     press_callback(hk_is_recording, key, pressed_keys \cup {normalized})
               IN  CASE callback_to_call = "cancel" ->
                          /\ hk_is_recording' = FALSE
                          /\ hk_lock' = "L"
                          /\ Goto("L", "lk_cancel")
                     [] callback_to_call = "start" ->
                          /\ hk_is_recording' = TRUE
                          /\ hk_lock' = "L"
                          /\ Goto("L", "lk_start")
                     [] callback_to_call = "none" ->
                          UNCHANGED <<hk_is_recording, pc, hk_lock>>
  /\ UNCHANGED <<listener, trace>>
  /\ UNCHANGED recVars
  /\ UNCHANGED histVars
  /\ UNCHANGED cfgVars
  /\ UNCHANGED hookVars
  /\ UNCHANGED frameVars
  /\ UNCHANGED timerVars

\* _on_press, the section under self._lock (lines 196-213).  A section that
\* selects a callback ends at a position where the lock is still held, and
\* leave_lock is the end of its with-block; a section that selects none takes
\* and releases the lock within the step.
on_press(key) ==
  /\ pc["L"] = "idle"
  /\ listener
  /\ hk_lock = "none"
  /\ budget > 0
  /\ budget' = budget - 1
  /\ held' = held \cup {normalize_key(key)}
  /\ LET normalized == normalize_key(key) IN
       IF normalized \in pressed_keys
       THEN UNCHANGED <<pressed_keys, hk_is_recording, pc, hk_lock>>
       ELSE /\ pressed_keys' = pressed_keys \cup {normalized}
            /\ LET callback_to_call ==
                     press_callback(hk_is_recording, key, pressed_keys \cup {normalized})
               IN  CASE callback_to_call = "cancel" ->
                          /\ hk_is_recording' = FALSE
                          /\ hk_lock' = "L"
                          /\ Goto("L", "lk_cancel")
                     [] callback_to_call = "start" ->
                          /\ hk_is_recording' = TRUE
                          /\ hk_lock' = "L"
                          /\ Goto("L", "lk_start")
                     [] callback_to_call = "none" ->
                          UNCHANGED <<hk_is_recording, pc, hk_lock>>
  /\ UNCHANGED <<listener, trace>>
  /\ UNCHANGED recVars
  /\ UNCHANGED histVars
  /\ UNCHANGED cfgVars
  /\ UNCHANGED hookVars
  /\ UNCHANGED frameVars
  /\ UNCHANGED timerVars

\* _intercept_event (lines 155-185), called by the listener for a raw event
\* between two handlers
intercept_event(key) ==
  /\ pc["L"] = "idle"
  /\ listener
  /\ hk_lock = "none"
  /\ \E quartz \in BOOLEAN :
       swallowed' = <<key, suppresses(hk_is_recording, key, quartz)>>
  /\ UNCHANGED <<pc, trace, held, budget>>
  /\ UNCHANGED hkVars
  /\ UNCHANGED recVars
  /\ UNCHANGED histVars
  /\ UNCHANGED cfgVars
  /\ UNCHANGED timerVars
  /\ UNCHANGED frameVars

\* _on_release, the section under self._lock (lines 239-246)
on_release(key) ==
  /\ pc["L"] = "idle"
  /\ listener
  /\ hk_lock = "none"
  /\ budget > 0
  /\ budget' = budget - 1
  /\ held' = held \ {normalize_key(key)}
  /\ IF release_stops(hk_is_recording, key)
     THEN /\ hk_is_recording' = FALSE
          /\ hk_lock' = "L"
          /\ Goto("L", "lk_stop")
     ELSE UNCHANGED <<hk_is_recording, pc, hk_lock>>
  /\ pressed_keys' = discard_key(pressed_keys, key)
  /\ UNCHANGED <<listener, trace>>
  /\ UNCHANGED recVars
  /\ UNCHANGED histVars
  /\ UNCHANGED cfgVars
  /\ UNCHANGED hookVars
  /\ UNCHANGED frameVars
  /\ UNCHANGED timerVars

\* faulty variant of leave_lock: the callback is reached with the lock held
leave_lock_held(t) ==
  /\ pc[t] \in DOMAIN AfterLock
  /\ hk_lock = t
  /\ Goto(t, AfterLock[pc[t]])
  /\ UNCHANGED <<trace, held, budget>>
  /\ UNCHANGED hkVars
  /\ UNCHANGED recVars
  /\ UNCHANGED histVars
  /\ UNCHANGED cfgVars
  /\ UNCHANGED hookVars
  /\ UNCHANGED frameVars
  /\ UNCHANGED timerVars

\* the end of the with-block of _on_press (line 213), _on_release (line 246)
\* and stop_listening (line 125): the lock is released, the selected callback
\* is called next
leave_lock(t) ==
  /\ pc[t] \in DOMAIN AfterLock
  /\ hk_lock = t
  /\ hk_lock' = "none"
  /\ Goto(t, AfterLock[pc[t]])
  /\ UNCHANGED <<hk_is_recording, pressed_keys, listener>>
  /\ UNCHANGED <<trace, held, budget>>
  /\ UNCHANGED recVars
  /\ UNCHANGED histVars
  /\ UNCHANGED cfgVars
  /\ UNCHANGED hookVars
  /\ UNCHANGED frameVars
  /\ UNCHANGED timerVars

\* _on_press line 223: self._on_record_start() -> app._on_record_start
\* (permission denied: return; _set_icon_safe raising; else start_recording)
call_on_record_start ==
  /\ pc["L"] = "cb_start"
  /\ trace' = Append(trace, <<"L", "Activate">>)
  /\ \E outcome \in {"denied", "raise", "proceed"} :
       CASE outcome = "denied" -> Goto("L", "idle")
         [] outcome = "raise" -> Goto("L", "exc_start")
         [] outcome = "proceed" -> Goto("L", "sr_enter")
  /\ UNCHANGED <<held, budget>>
  /\ UNCHANGED hkVars
  /\ UNCHANGED recVars
  /\ UNCHANGED histVars
  /\ UNCHANGED cfgVars
  /\ UNCHANGED hookVars
  /\ UNCHANGED frameVars
  /\ UNCHANGED timerVars

\* _on_press lines 224-227: except Exception: with self._lock: _is_recording = False
except_on_record_start ==
  /\ pc["L"] = "exc_start"
  /\ hk_lock \in {"none", "L"}
  /\ hk_is_recording' = state_after_failed_start(hk_is_recording)
  /\ Goto("L", "idle")
  /\ UNCHANGED <<pressed_keys, listener, hk_lock, trace, held, budget>>
  /\ UNCHANGED recVars
  /\ UNCHANGED histVars
  /\ UNCHANGED cfgVars
  /\ UNCHANGED hookVars
  /\ UNCHANGED frameVars
  /\ UNCHANGED timerVars

\* faulty variant of except_device_error: the OSError is not caught by the app
except_device_error_uncaught ==
  /\ pc["L"] = "exc_device"
  /\ Goto("L", "exc_start")
  /\ UNCHANGED <<trace, held, budget>>
  /\ UNCHANGED hkVars
  /\ UNCHANGED recVars
  /\ UNCHANGED histVars
  /\ UNCHANGED cfgVars
  /\ UNCHANGED hookVars
  /\ UNCHANGED frameVars
  /\ UNCHANGED timerVars

\* app._on_record_start lines 224-230: except OSError: log, idle icon,
\* notification; the callback then returns normally
except_device_error ==
  /\ pc["L"] = "exc_device"
  /\ Goto("L", "idle")
  /\ UNCHANGED <<trace, held, budget>>
  /\ UNCHANGED hkVars
  /\ UNCHANGED recVars
  /\ UNCHANGED histVars
  /\ UNCHANGED cfgVars
  /\ UNCHANGED hookVars
  /\ UNCHANGED frameVars
  /\ UNCHANGED timerVars

\* _on_release line 251: self._on_record_stop() -> app._on_record_stop -> stop_recording
call_on_record_stop ==
  /\ pc["L"] = "cb_stop"
  /\ trace' = Append(trace, <<"L", "Deactivate">>)
  /\ Goto("L", "st_timer")
  /\ UNCHANGED <<held, budget>>
  /\ UNCHANGED hkVars
  /\ UNCHANGED recVars
  /\ UNCHANGED histVars
  /\ UNCHANGED cfgVars
  /\ UNCHANGED hookVars
  /\ UNCHANGED frameVars
  /\ UNCHANGED timerVars

\* _on_press line 218: self._on_cancel() -> app._on_cancel -> cancel_recording
call_on_cancel ==
  /\ pc["L"] = "cb_cancel"
  /\ trace' = Append(trace, <<"L", "Cancel">>)
  /\ Goto("L", "ca_timer")
  /\ UNCHANGED <<held, budget>>
  /\ UNCHANGED hkVars
  /\ UNCHANGED recVars
  /\ UNCHANGED histVars
  /\ UNCHANGED cfgVars
  /\ UNCHANGED hookVars
  /\ UNCHANGED frameVars
  /\ UNCHANGED timerVars

\* app._on_record_stop / app._on_cancel after the recorder call: the icon update,
\* the notification or the thread start may raise; the handler's except logs it
callback_returns ==
  /\ pc["L"] \in {"ret_stop", "ret_cancel"}
  /\ \E raised \in BOOLEAN :
       IF raised
       THEN Goto("L", IF pc["L"] = "ret_stop" THEN "exc_stop" ELSE "exc_cancel")
       ELSE Goto("L", "idle")
  /\ UNCHANGED <<trace, held, budget>>
  /\ UNCHANGED hkVars
  /\ UNCHANGED recVars
  /\ UNCHANGED histVars
  /\ UNCHANGED cfgVars
  /\ UNCHANGED hookVars
  /\ UNCHANGED frameVars
  /\ UNCHANGED timerVars

\* _on_release lines 252-253 and _on_press lines 219-220: except Exception: log
except_logged ==
  /\ pc["L"] \in {"exc_stop", "exc_cancel"}
  /\ Goto("L", "idle")
  /\ UNCHANGED <<trace, held, budget>>
  /\ UNCHANGED hkVars
  /\ UNCHANGED recVars
  /\ UNCHANGED histVars
  /\ UNCHANGED cfgVars
  /\ UNCHANGED hookVars
  /\ UNCHANGED frameVars
  /\ UNCHANGED timerVars

\* --------------------------------------------------------------- AudioRecorder

\* _cancel_max_duration_timer (lines 76-81)
cancel_max_duration_timer ==
  /\ timer_armed' = IF timer_ref THEN FALSE ELSE timer_armed
  /\ timer_ref' = FALSE
  /\ timer_of' = 0

\* faulty variant of stop_stream: the stream is closed, the flag stays set
stop_stream_keeps_recording ==
  /\ lock = "none"
  /\ IF stream # "none"
     THEN /\ stream' = "none"
          /\ UNCHANGED is_recording
     ELSE UNCHANGED <<stream, is_recording>>

\* _stop_stream (lines 215-227), entered with the lock free
stop_stream ==
  /\ lock = "none"
  /\ IF stream # "none"
     THEN /\ stream' = "none"
          /\ is_recording' = FALSE
     ELSE UNCHANGED <<stream, is_recording>>

\* faulty variant of start_recording_enter: the buffer is reset before the
\* already-recording test
start_recording_enter_reset_first ==
  /\ pc["L"] = "sr_enter"
  /\ lock = "none"
  /\ buffer' = <<>>
  /\ IF is_recording
     THEN /\ Goto("L", "exc_start")
          /\ UNCHANGED lock
     ELSE /\ lock' = "L"
          /\ Goto("L", "sr_open")
  /\ UNCHANGED <<is_recording, stream, timer_ref, timer_armed>>
  /\ UNCHANGED <<trace, held, budget>>
  /\ UNCHANGED hkVars
  /\ UNCHANGED histVars
  /\ UNCHANGED cfgVars
  /\ UNCHANGED hookVars
  /\ origin' = <<>>
  /\ UNCHANGED <<trace_frames, total, written>>
  /\ UNCHANGED timerVars

\* start_recording lines 119-124: take the lock; RuntimeError if already
\* recording (not caught by app._on_record_start, so it reaches _on_press's
\* except); else reset the buffer
start_recording_enter ==
  /\ pc["L"] = "sr_enter"
  /\ lock = "none"
  /\ IF is_recording
     THEN /\ Goto("L", "exc_start")
          /\ UNCHANGED <<buffer, lock>>
     ELSE /\ buffer' = <<>>
          /\ lock' = "L"
          /\ Goto("L", "sr_open")
  /\ UNCHANGED <<is_recording, stream, timer_ref, timer_armed>>
  /\ UNCHANGED <<trace, held, budget>>
  /\ UNCHANGED hkVars
  /\ UNCHANGED histVars
  /\ UNCHANGED cfgVars
  /\ UNCHANGED hookVars
  /\ origin' = IF is_recording THEN origin ELSE <<>>
  /\ UNCHANGED <<trace_frames, total, written>>
  /\ UNCHANGED timerVars

\* start_recording lines 126-135 and 138-140: pyaudio.open and start_stream under
\* the lock; OSError from either releases the lock and is raised to the caller
start_recording_open ==
  /\ pc["L"] = "sr_open"
  /\ lock = "L"
  /\ \E outcome \in {"open_fails", "start_fails", "ok"} :
       CASE outcome = "open_fails" ->
              /\ UNCHANGED stream
              /\ lock' = "none"
              /\ Goto("L", "exc_device")
         [] outcome = "start_fails" ->
              /\ stream' = "open"
              /\ lock' = "none"
              /\ Goto("L", "exc_device")
         [] outcome = "ok" ->
              /\ stream' = "active"
              /\ UNCHANGED lock
              /\ Goto("L", "sr_set")
  /\ UNCHANGED <<is_recording, buffer, timer_ref, timer_armed>>
  /\ UNCHANGED <<trace, held, budget>>
  /\ UNCHANGED hkVars
  /\ UNCHANGED histVars
  /\ UNCHANGED cfgVars
  /\ UNCHANGED hookVars
  /\ total' = IF trace_frames /\ pc'["L"] = "sr_set" THEN Append(total, 0) ELSE total
  /\ UNCHANGED <<trace_frames, origin, written>>
  /\ UNCHANGED timerVars

\* start_recording line 136: self._is_recording = True, then the lock is released
start_recording_set ==
  /\ pc["L"] = "sr_set"
  /\ lock = "L"
  /\ is_recording' = TRUE
  /\ lock' = "none"
  /\ session' = session + 1
  /\ Goto("L", "sr_timer")
  /\ UNCHANGED <<stream, buffer, timer_ref, timer_armed>>
  /\ UNCHANGED <<seen, artifacts, cancelled, sl_during_start, handed>>
  /\ UNCHANGED <<trace, held, budget>>
  /\ UNCHANGED hkVars
  /\ UNCHANGED cfgVars
  /\ UNCHANGED hookVars
  /\ UNCHANGED frameVars
  /\ UNCHANGED timerVars

\* start_recording line 143: _start_max_duration_timer (lines 63-74), outside the lock
start_max_duration_timer ==
  /\ pc["L"] = "sr_timer"
  /\ timer_ref' = TRUE
  /\ timer_armed' = TRUE
  /\ Goto("L", "idle")
  /\ UNCHANGED <<is_recording, stream, buffer, lock>>
  /\ UNCHANGED <<trace, held, budget>>
  /\ UNCHANGED hkVars
  /\ UNCHANGED histVars
  /\ UNCHANGED cfgVars
  /\ UNCHANGED hookVars
  /\ UNCHANGED frameVars
  /\ timer_of' = session
  /\ UNCHANGED w_timer

\* the session a frame delivered now belongs to: the stream is started at line
\* 135, one line before the session is counted as Recording (line 136)
FrameTag == IF pc["L"] = "sr_set" THEN session + 1 ELSE session

\* _audio_callback (lines 193-213), on the PortAudio thread, without the lock
audio_callback ==
  /\ stream = "active"
  /\ Len(buffer) < MaxChunks
  /\ buffer' = Append(buffer, CHUNK_SIZE * 2)
  /\ UNCHANGED <<is_recording, stream, timer_ref, timer_armed, lock>>
  /\ UNCHANGED <<pc, trace, held, budget>>
  /\ UNCHANGED hkVars
  /\ UNCHANGED histVars
  /\ UNCHANGED cfgVars
  /\ UNCHANGED hookVars
  /\ IF trace_frames
     THEN /\ total' = [total EXCEPT ![FrameTag] = @ + 1]
          /\ origin' = Append(origin, <<FrameTag, total[FrameTag] + 1>>)
     ELSE UNCHANGED <<origin, total>>
  /\ UNCHANGED <<trace_frames, written>>
  /\ UNCHANGED timerVars

\* stop_recording line 156: cancel the timer first
stop_recording_timer(t) ==
  /\ pc[t] = "st_timer"
  /\ cancel_max_duration_timer
  /\ Goto(t, "st_check")
  /\ UNCHANGED <<is_recording, stream, buffer, lock>>
  /\ UNCHANGED <<trace, held, budget>>
  /\ UNCHANGED hkVars
  /\ UNCHANGED histVars
  /\ UNCHANGED cfgVars
  /\ UNCHANGED hookVars
  /\ UNCHANGED frameVars
  /\ UNCHANGED w_timer

\* faulty variant of stop_recording_check: the lock is kept for _stop_stream
stop_recording_check_keeps_lock(t) ==
  /\ pc[t] = "st_check"
  /\ lock = "none"
  /\ IF ~is_recording
     THEN /\ Goto(t, AfterStop(t))
          /\ UNCHANGED <<seen, lock>>
     ELSE /\ Goto(t, "st_stop")
          /\ lock' = t
          /\ seen' = [seen EXCEPT ![t] = session]
  /\ UNCHANGED <<is_recording, stream, buffer, timer_ref, timer_armed>>
  /\ UNCHANGED <<session, artifacts, cancelled, sl_during_start, handed>>
  /\ UNCHANGED <<trace, held, budget>>
  /\ UNCHANGED hkVars
  /\ UNCHANGED cfgVars
  /\ UNCHANGED hookVars
  /\ UNCHANGED frameVars
  /\ UNCHANGED timerVars

\* stop_recording lines 158-161: under the lock, return None if not recording
stop_recording_check(t) ==
  /\ pc[t] = "st_check"
  /\ lock = "none"
  /\ IF ~is_recording
     THEN /\ Goto(t, AfterStop(t))
          /\ UNCHANGED seen
     ELSE /\ Goto(t, "st_stop")
          /\ seen' = [seen EXCEPT ![t] = session]
  /\ UNCHANGED recVars
  /\ UNCHANGED <<session, artifacts, cancelled, sl_during_start, handed>>
  /\ UNCHANGED <<trace, held, budget>>
  /\ UNCHANGED hkVars
  /\ UNCHANGED cfgVars
  /\ UNCHANGED hookVars
  /\ UNCHANGED frameVars
  /\ UNCHANGED timerVars

\* stop_recording line 164: self._stop_stream()
stop_recording_stop(t) ==
  /\ pc[t] = "st_stop"
  /\ stop_stream
  /\ Goto(t, "st_dur")
  /\ UNCHANGED <<buffer, timer_ref, timer_armed, lock>>
  /\ UNCHANGED <<trace, held, budget>>
  /\ UNCHANGED hkVars
  /\ UNCHANGED histVars
  /\ UNCHANGED cfgVars
  /\ UNCHANGED hookVars
  /\ UNCHANGED frameVars
  /\ UNCHANGED timerVars

\* stop_recording lines 166-169: duration = self._calculate_duration()
stop_recording_duration(t) ==
  /\ pc[t] = "st_dur"
  /\ Goto(t, IF TooShort(buffer) THEN "st_discard" ELSE "st_save")
  /\ UNCHANGED recVars
  /\ UNCHANGED <<trace, held, budget>>
  /\ UNCHANGED hkVars
  /\ UNCHANGED histVars
  /\ UNCHANGED cfgVars
  /\ UNCHANGED hookVars
  /\ UNCHANGED frameVars
  /\ UNCHANGED timerVars

\* faulty variant of stop_recording_discard: the short recording is not cleared
stop_recording_discard_keep(t) ==
  /\ pc[t] = "st_discard"
  /\ Goto(t, AfterStop(t))
  /\ UNCHANGED recVars
  /\ UNCHANGED <<trace, held, budget>>
  /\ UNCHANGED hkVars
  /\ UNCHANGED histVars
  /\ UNCHANGED cfgVars
  /\ UNCHANGED hookVars
  /\ UNCHANGED frameVars
  /\ UNCHANGED timerVars

\* stop_recording lines 175-176: too short, self._clear_buffer(); return None
stop_recording_discard(t) ==
  /\ pc[t] = "st_discard"
  /\ buffer' = <<>>
  /\ Goto(t, AfterStop(t))
  /\ UNCHANGED <<is_recording, stream, timer_ref, timer_armed, lock>>
  /\ UNCHANGED <<trace, held, budget>>
  /\ UNCHANGED hkVars
  /\ UNCHANGED histVars
  /\ UNCHANGED cfgVars
  /\ UNCHANGED hookVars
  /\ origin' = <<>>
  /\ UNCHANGED <<trace_frames, total, written>>
  /\ UNCHANGED timerVars

\* _save_to_temp_file lines 249-264 and 270-273: write the joined buffer to a
\* new file; on OSError clear the buffer and return None
save_to_temp_file(t) ==
  /\ pc[t] = "st_save"
  /\ \E failed \in BOOLEAN :
       IF failed
       THEN /\ buffer' = <<>>
            /\ origin' = <<>>
            /\ UNCHANGED <<artifacts, written>>
            /\ Goto(t, AfterStop(t))
       ELSE /\ artifacts' = Append(artifacts, <<seen[t], SumLen(buffer)>>)
            /\ written' = Append(written, origin)
            /\ UNCHANGED <<buffer, origin>>
            /\ Goto(t, "st_saved")
  /\ UNCHANGED <<is_recording, stream, timer_ref, timer_armed, lock>>
  /\ UNCHANGED <<seen, session, cancelled, sl_during_start, handed>>
  /\ UNCHANGED <<trace, held, budget>>
  /\ UNCHANGED hkVars
  /\ UNCHANGED cfgVars
  /\ UNCHANGED hookVars
  /\ UNCHANGED <<trace_frames, total>>
  /\ UNCHANGED timerVars

\* faulty variant of save_to_temp_file_clear: the saved frames stay in the buffer
save_to_temp_file_keep(t) ==
  /\ pc[t] = "st_saved"
  /\ Goto(t, AfterSave(t))
  /\ UNCHANGED recVars
  /\ UNCHANGED <<trace, held, budget>>
  /\ UNCHANGED hkVars
  /\ UNCHANGED histVars
  /\ UNCHANGED cfgVars
  /\ UNCHANGED hookVars
  /\ UNCHANGED frameVars
  /\ UNCHANGED timerVars

\* _save_to_temp_file lines 266-268: self._clear_buffer(); return temp_path
save_to_temp_file_clear(t) ==
  /\ pc[t] = "st_saved"
  /\ buffer' = <<>>
  /\ Goto(t, AfterSave(t))
  /\ UNCHANGED <<is_recording, stream, timer_ref, timer_armed, lock>>
  /\ UNCHANGED <<trace, held, budget>>
  /\ UNCHANGED hkVars
  /\ UNCHANGED histVars
  /\ UNCHANGED cfgVars
  /\ UNCHANGED hookVars
  /\ origin' = <<>>
  /\ UNCHANGED <<trace_frames, total, written>>
  /\ UNCHANGED timerVars

\* app._on_record_stop lines 255-262 and app._on_max_duration lines 296-309,
\* with a transcriber configured: notification (watchdog only, never raises),
\* icon update, then a thread running _run_transcription on the saved file;
\* then the callback returns
start_transcription(t) ==
  /\ pc[t] = AfterSave(t)
  /\ handed' = handed \cup {<<downstream(t), seen[t]>>}
  /\ Goto(t, CallbackDone(t))
  /\ UNCHANGED <<seen, session, artifacts, cancelled, sl_during_start>>
  /\ UNCHANGED <<trace, held, budget>>
  /\ UNCHANGED hkVars
  /\ UNCHANGED recVars
  /\ UNCHANGED cfgVars
  /\ UNCHANGED hookVars
  /\ UNCHANGED frameVars
  /\ UNCHANGED timerVars

\* cancel_recording line 186: cancel the timer first
cancel_recording_timer(t) ==
  /\ pc[t] = "ca_timer"
  /\ cancel_max_duration_timer
  /\ cancelled' = IF is_recording THEN cancelled \cup {session} ELSE cancelled
  /\ Goto(t, "ca_stop")
  /\ UNCHANGED <<is_recording, stream, buffer, lock>>
  /\ UNCHANGED <<seen, session, artifacts, sl_during_start, handed>>
  /\ UNCHANGED <<trace, held, budget>>
  /\ UNCHANGED hkVars
  /\ UNCHANGED cfgVars
  /\ UNCHANGED hookVars
  /\ UNCHANGED frameVars
  /\ UNCHANGED w_timer

\* cancel_recording line 189: self._stop_stream()
cancel_recording_stop(t) ==
  /\ pc[t] = "ca_stop"
  /\ stop_stream
  /\ Goto(t, "ca_clear")
  /\ UNCHANGED <<buffer, timer_ref, timer_armed, lock>>
  /\ UNCHANGED <<trace, held, budget>>
  /\ UNCHANGED hkVars
  /\ UNCHANGED histVars
  /\ UNCHANGED cfgVars
  /\ UNCHANGED hookVars
  /\ UNCHANGED frameVars
  /\ UNCHANGED timerVars

\* cancel_recording line 190: self._clear_buffer()
cancel_recording_clear(t) ==
  /\ pc[t] = "ca_clear"
  /\ buffer' = <<>>
  /\ Goto(t, AfterCancel(t))
  /\ UNCHANGED <<is_recording, stream, timer_ref, timer_armed, lock>>
  /\ UNCHANGED <<trace, held, budget>>
  /\ UNCHANGED hkVars
  /\ UNCHANGED histVars
  /\ UNCHANGED cfgVars
  /\ UNCHANGED hookVars
  /\ origin' = <<>>
  /\ UNCHANGED <<trace_frames, total, written>>
  /\ UNCHANGED timerVars

\* ------------------------------------------------------- watchdog timer thread

\* threading.Timer(MAX_RECORDING_DURATION, self._on_max_duration_reached) fires
timer_fires ==
  /\ timer_armed
  /\ pc["W"] = "idle"
  /\ timer_armed' = FALSE
  /\ Goto("W", "w_check")
  /\ UNCHANGED <<is_recording, stream, buffer, timer_ref, lock>>
  /\ UNCHANGED <<trace, held, budget>>
  /\ UNCHANGED hkVars
  /\ UNCHANGED histVars
  /\ UNCHANGED cfgVars
  /\ UNCHANGED hookVars
  /\ UNCHANGED frameVars
  /\ w_timer' = timer_of
  /\ UNCHANGED timer_of

\* _on_max_duration_reached (lines 83-97): under the lock return if not
\* recording; then, if a callback was supplied, call it: app._on_max_duration
\* starts with stop_recording, a callback that fails raises at once
on_max_duration_reached ==
  /\ pc["W"] = "w_check"
  /\ lock = "none"
  /\ Goto("W", IF ~is_recording THEN "idle"
               ELSE CASE on_max_duration = "none" -> "idle"
                      [] on_max_duration = "app" -> "st_timer"
                      [] on_max_duration = "raises" -> "exc_max")
  /\ UNCHANGED recVars
  /\ UNCHANGED <<trace, held, budget>>
  /\ UNCHANGED hkVars
  /\ UNCHANGED histVars
  /\ UNCHANGED cfgVars
  /\ UNCHANGED hookVars
  /\ UNCHANGED frameVars
  /\ UNCHANGED timerVars

\* _on_max_duration_reached lines 96-97: except Exception: log the error
except_max_duration ==
  /\ pc["W"] = "exc_max"
  /\ Goto("W", "idle")
  /\ UNCHANGED <<trace, held, budget>>
  /\ UNCHANGED hkVars
  /\ UNCHANGED recVars
  /\ UNCHANGED histVars
  /\ UNCHANGED cfgVars
  /\ UNCHANGED hookVars
  /\ UNCHANGED frameVars
  /\ UNCHANGED timerVars

\* ------------------------------------------------------ control thread: _cleanup

\* faulty variant of stop_listening_lock: Armed is reset without a Deactivate
stop_listening_lock_no_signal ==
  /\ pc["C"] = "idle"
  /\ listener
  /\ hk_lock = "none"
  /\ IF hk_is_recording
     THEN /\ hk_is_recording' = FALSE
          /\ UNCHANGED hk_lock
          /\ Goto("C", "sl_detach")
     ELSE /\ UNCHANGED <<hk_is_recording, hk_lock>>
          /\ Goto("C", "sl_detach")
  /\ pressed_keys' = {}
  /\ held' = {}
  /\ sl_during_start' = (hk_is_recording /\ pc["L"] \in InOnRecordStart)
  /\ budget' = IF budget > MaxLate THEN MaxLate ELSE budget
  /\ UNCHANGED <<seen, session, artifacts, cancelled, handed>>
  /\ UNCHANGED <<listener, trace>>
  /\ UNCHANGED recVars
  /\ UNCHANGED cfgVars
  /\ UNCHANGED hookVars
  /\ UNCHANGED frameVars
  /\ UNCHANGED timerVars

\* stop_listening lines 119-125, called from _cleanup line 555-556
stop_listening_lock ==
  /\ pc["C"] = "idle"
  /\ listener
  /\ hk_lock = "none"
  /\ IF hk_is_recording
     THEN /\ hk_is_recording' = FALSE
          /\ hk_lock' = "C"
          /\ Goto("C", "lk_sl")
     ELSE /\ UNCHANGED <<hk_is_recording, hk_lock>>
          /\ Goto("C", "sl_detach")
  /\ pressed_keys' = {}
  /\ held' = {}
  /\ sl_during_start' = (hk_is_recording /\ pc["L"] \in InOnRecordStart)
  /\ budget' = IF budget > MaxLate THEN MaxLate ELSE budget
  /\ UNCHANGED <<seen, session, artifacts, cancelled, handed>>
  /\ UNCHANGED <<listener, trace>>
  /\ UNCHANGED recVars
  /\ UNCHANGED cfgVars
  /\ UNCHANGED hookVars
  /\ UNCHANGED frameVars
  /\ UNCHANGED timerVars

\* stop_listening lines 128-132: self._on_record_stop() -> stop_recording
stop_listening_callback ==
  /\ pc["C"] = "sl_cb"
  /\ trace' = Append(trace, <<"C", "Deactivate">>)
  /\ Goto("C", "st_timer")
  /\ UNCHANGED <<held, budget>>
  /\ UNCHANGED hkVars
  /\ UNCHANGED recVars
  /\ UNCHANGED histVars
  /\ UNCHANGED cfgVars
  /\ UNCHANGED hookVars
  /\ UNCHANGED frameVars
  /\ UNCHANGED timerVars

\* stop_listening lines 134-137: listener.stop(); join(timeout=1.0); _listener = None
\* (the join gives up after the timeout, so it does not wait for a handler
\* that is still running on the listener thread)
stop_listening_detach ==
  /\ pc["C"] = "sl_detach"
  /\ listener' = FALSE
  /\ Goto("C", "cl_check")
  /\ UNCHANGED <<hk_is_recording, pressed_keys, hk_lock, trace, held, budget>>
  /\ UNCHANGED recVars
  /\ UNCHANGED histVars
  /\ UNCHANGED cfgVars
  /\ UNCHANGED hookVars
  /\ UNCHANGED frameVars
  /\ UNCHANGED timerVars

\* _cleanup lines 557-558: if self._recorder.is_recording: cancel_recording()
cleanup_check ==
  /\ pc["C"] = "cl_check"
  /\ lock = "none"
  /\ Goto("C", IF is_recording THEN "ca_timer" ELSE "done")
  /\ UNCHANGED histVars
  /\ UNCHANGED <<trace, held, budget>>
  /\ UNCHANGED hkVars
  /\ UNCHANGED recVars
  /\ UNCHANGED cfgVars
  /\ UNCHANGED hookVars
  /\ UNCHANGED frameVars
  /\ UNCHANGED timerVars

\* stop_listening lines 114-115, called again once the listener is gone:
\* if self._listener is None: return
stop_listening_none ==
  /\ pc["C"] = "done"
  /\ ~listener
  /\ UNCHANGED vars

\* ------------------------------------------------------------------ behaviours

Listener ==
  \/ \E key \in RawKeys : on_press(key)
  \/ \E key \in RawKeys : on_release(key)
  \/ leave_lock("L")
  \/ call_on_record_start
  \/ except_on_record_start
  \/ except_device_error
  \/ call_on_record_stop
  \/ call_on_cancel
  \/ callback_returns
  \/ start_transcription("L")
  \/ except_logged
  \/ start_recording_enter
  \/ start_recording_open
  \/ start_recording_set
  \/ start_max_duration_timer

Recorder(t) ==
  \/ stop_recording_timer(t)
  \/ stop_recording_check(t)
  \/ stop_recording_stop(t)
  \/ stop_recording_duration(t)
  \/ stop_recording_discard(t)
  \/ save_to_temp_file(t)
  \/ save_to_temp_file_clear(t)
  \/ cancel_recording_timer(t)
  \/ cancel_recording_stop(t)
  \/ cancel_recording_clear(t)

Control ==
  \/ stop_listening_lock
  \/ leave_lock("C")
  \/ stop_listening_callback
  \/ start_transcription("C")
  \/ stop_listening_detach
  \/ cleanup_check
  \/ stop_listening_none

Watchdog ==
  \/ timer_fires
  \/ on_max_duration_reached
  \/ start_transcription("W")

Next ==
  \/ Listener
  \/ \E t \in Threads : Recorder(t)
  \/ Control
  \/ Watchdog
  \/ audio_callback

Spec == Init /\ [][Next]_vars

\* --------------------------------------------------- key engine specification
\* The listener thread alone: MaxKeyEvents key events, the suppression hook,
\* the application callbacks and the recorder calls they make.  No _cleanup,
\* no watchdog.
InitKeys ==
  /\ hk_is_recording = FALSE
  /\ pressed_keys = {}
  /\ listener = TRUE
  /\ hk_lock = "none"
  /\ is_recording = FALSE
  /\ stream = "none"
  /\ buffer = <<>>
  /\ timer_ref = FALSE
  /\ timer_armed = FALSE
  /\ lock = "none"
  /\ pc = [t \in Threads |-> "idle"]
  /\ seen = [t \in Threads |-> 0]
  /\ session = 0
  /\ artifacts = <<>>
  /\ cancelled = {}
  /\ sl_during_start = FALSE
  /\ trace = <<>>
  /\ held = {}
  /\ budget = MaxKeyEvents
  /\ handed = {}
  /\ on_max_duration = "app"
  /\ swallowed = <<"none", FALSE>>
  /\ trace_frames = FALSE
  /\ origin = <<>>
  /\ total = <<>>
  /\ written = <<>>
  /\ timer_of = 0
  /\ w_timer = 0

NextKeys ==
  \/ Listener
  \/ \E key \in RawKeys : intercept_event(key)
  \/ Recorder("L")
  \/ audio_callback

SpecKeys == InitKeys /\ [][NextKeys]_vars

\* The listener thread alone on a keyboard that reports its modifiers by side:
\* the canonical modifier key is never delivered, every Option event is alt_l
\* or alt_r.
SidedKeys == RawKeys \ {KEY_NORMALIZATIONS[v] : v \in DOMAIN KEY_NORMALIZATIONS}

InitVariants ==
  InitKeys

NextVariants ==
  \/ \E key \in SidedKeys : on_press(key)
  \/ \E key \in SidedKeys : on_release(key)
  \/ leave_lock("L")
  \/ call_on_record_start
  \/ except_on_record_start
  \/ except_device_error
  \/ call_on_record_stop
  \/ call_on_cancel
  \/ callback_returns
  \/ start_transcription("L")
  \/ except_logged
  \/ start_recording_enter
  \/ start_recording_open
  \/ start_recording_set
  \/ start_max_duration_timer
  \/ Recorder("L")
  \/ audio_callback

SpecVariants == InitVariants /\ [][NextVariants]_vars

\* The listener thread alone, with the events of one activation attempt: any
\* key may be pressed, only keys outside the combination are released.
OtherKeys == {key \in RawKeys : normalize_key(key) \notin hotkey}

InitOrder ==
  InitKeys

NextOrder ==
  \/ \E key \in RawKeys : on_press(key)
  \/ \E key \in OtherKeys : on_release(key)
  \/ leave_lock("L")
  \/ call_on_record_start
  \/ except_on_record_start
  \/ except_device_error
  \/ call_on_cancel
  \/ callback_returns
  \/ except_logged
  \/ start_recording_enter
  \/ start_recording_open
  \/ start_recording_set
  \/ start_max_duration_timer
  \/ cancel_recording_timer("L")
  \/ cancel_recording_stop("L")
  \/ cancel_recording_clear("L")
  \/ audio_callback

SpecOrder == InitOrder /\ [][NextOrder]_vars

\* a thread that is not inside any call
AtRest == {"idle", "done"}

\* the steps of thread t once it is inside a handler or a call: everything but
\* the arrival of a key event, the start of _cleanup and the firing of a timer
Continue(t) ==
  \/ Recorder(t)
  \/ leave_lock(t)
  \/ start_transcription(t)
  \/ /\ t = "L"
     /\ \/ call_on_record_start
        \/ except_on_record_start
        \/ except_device_error
        \/ call_on_record_stop
        \/ call_on_cancel
        \/ callback_returns
        \/ except_logged
        \/ start_recording_enter
        \/ start_recording_open
        \/ start_recording_set
        \/ start_max_duration_timer
  \/ /\ t = "C"
     /\ \/ stop_listening_callback
        \/ stop_listening_detach
        \/ cleanup_check
  \/ /\ t = "W"
     /\ on_max_duration_reached

\* the application with MaxFairEvents key events
InitFair ==
  /\ hk_is_recording = FALSE
  /\ pressed_keys = {}
  /\ listener = TRUE
  /\ hk_lock = "none"
  /\ is_recording = FALSE
  /\ stream = "none"
  /\ buffer = <<>>
  /\ timer_ref = FALSE
  /\ timer_armed = FALSE
  /\ lock = "none"
  /\ pc = [t \in Threads |-> "idle"]
  /\ seen = [t \in Threads |-> 0]
  /\ session = 0
  /\ artifacts = <<>>
  /\ cancelled = {}
  /\ sl_during_start = FALSE
  /\ trace = <<>>
  /\ held = {}
  /\ budget = MaxFairEvents
  /\ handed = {}
  /\ on_max_duration = "app"
  /\ swallowed = <<"none", FALSE>>
  /\ trace_frames = FALSE
  /\ origin = <<>>
  /\ total = <<>>
  /\ written = <<>>
  /\ timer_of = 0
  /\ w_timer = 0

\* the application under the scheduling of the operating system: while some
\* thread can take its next step inside a call, the threads are not all
\* suspended for ever
SpecFair ==
  InitFair /\ [][Next]_vars /\ WF_vars(\E t \in Threads : Continue(t))

TypeOK ==
  /\ hk_is_recording \in BOOLEAN
  /\ pressed_keys \subseteq {normalize_key(k) : k \in RawKeys}
  /\ is_recording \in BOOLEAN
  /\ stream \in {"none", "open", "active"}
  /\ Len(buffer) <= MaxChunks
  /\ lock \in {"none", "L"}
  /\ hk_lock \in {"none", "L", "C"}
  /\ budget \in Nat
  /\ swallowed[1] \in RawKeys \cup {"none"} /\ swallowed[2] \in BOOLEAN
  /\ trace_frames \in BOOLEAN
  /\ trace_frames => Len(origin) = Len(buffer)
  /\ Len(written) = Len(artifacts)

\* ------------------------------------------- duration boundary specification
\* One Recording session whose buffered byte total lies around the minimum
\* duration is ended once: by app._on_record_stop on the listener thread after
\* a release, or by the watchdog whose timer has just fired.  No other thread
\* runs, the stream delivers nothing more.

\* bytes of MIN_RECORDING_DURATION seconds of 16-bit mono audio
ThresholdBytes == (2 * MinDurNum * SAMPLE_RATE) \div MinDurDen

\* n bytes as the audio callback buffers them: full chunks, then the rest
ChunksOf(n) ==
  [i \in 1..(n \div (CHUNK_SIZE * 2)) |-> CHUNK_SIZE * 2]
    \o (IF n % (CHUNK_SIZE * 2) = 0 THEN <<>> ELSE <<n % (CHUNK_SIZE * 2)>>)

InitDuration ==
  /\ listener = TRUE
  /\ hk_lock = "none"
  /\ is_recording = TRUE
  /\ stream = "active"
  /\ \E n \in (ThresholdBytes - DurSpread)..(ThresholdBytes + DurSpread) :
       buffer = ChunksOf(n)
  /\ timer_ref = TRUE
  /\ lock = "none"
  /\ \E ender \in {"L", "W"} :
       IF ender = "L"
       THEN /\ hk_is_recording = FALSE
            /\ pressed_keys = {"alt"}
            /\ held = {"alt"}
            /\ trace = <<<<"L", "Activate">>, <<"L", "Deactivate">>>>
            /\ timer_armed = TRUE
            /\ pc = [t \in Threads |-> IF t = "L" THEN "st_timer" ELSE "idle"]
       ELSE /\ hk_is_recording = TRUE
            /\ pressed_keys = {"alt", "space"}
            /\ held = {"alt", "space"}
            /\ trace = <<<<"L", "Activate">>>>
            /\ timer_armed = FALSE
            /\ pc = [t \in Threads |-> IF t = "W" THEN "w_check" ELSE "idle"]
  /\ seen = [t \in Threads |-> 0]
  /\ session = 1
  /\ artifacts = <<>>
  /\ cancelled = {}
  /\ sl_during_start = FALSE
  /\ budget = 0
  /\ handed = {}
  /\ on_max_duration = "app"
  /\ swallowed = <<"none", FALSE>>
  /\ trace_frames = FALSE
  /\ origin = <<>>
  /\ total = <<>>
  /\ written = <<>>
  /\ timer_of = 1
  /\ w_timer = IF pc["W"] = "w_check" THEN 1 ELSE 0

NextDuration ==
  \/ on_max_duration_reached
  \/ \E t \in {"L", "W"} :
       \/ stop_recording_timer(t)
       \/ stop_recording_check(t)
       \/ stop_recording_stop(t)
       \/ stop_recording_duration(t)
       \/ stop_recording_discard(t)
       \/ save_to_temp_file(t)
       \/ save_to_temp_file_clear(t)
       \/ start_transcription(t)
  \/ callback_returns
  \/ except_logged

SpecDuration == InitDuration /\ [][NextDuration]_vars

\* ------------------------------------------------ recorder API specification
\* The AudioRecorder under a caller that uses its public methods directly and
\* in any order, as the module's own __main__ block does, with the watchdog
\* timer thread and the audio callback running beside it.  The caller runs on
\* thread "L"; the hotkey engine takes no part.

\* recorder.start_recording() / stop_recording() / cancel_recording()
client_call ==
  /\ pc["L"] = "idle"
  /\ budget > 0
  /\ budget' = budget - 1
  /\ \E op \in {"sr_enter", "st_timer", "ca_timer"} : Goto("L", op)
  /\ UNCHANGED <<trace, held>>
  /\ UNCHANGED hkVars
  /\ UNCHANGED recVars
  /\ UNCHANGED histVars
  /\ UNCHANGED cfgVars
  /\ UNCHANGED hookVars
  /\ UNCHANGED frameVars
  /\ UNCHANGED timerVars

\* the call returns to the caller, with a value or with RuntimeError / OSError
client_returns ==
  /\ pc["L"] \in {"ret_stop", "ret_path", "ret_cancel", "exc_start", "exc_device"}
  /\ Goto("L", "idle")
  /\ UNCHANGED <<trace, held, budget>>
  /\ UNCHANGED hkVars
  /\ UNCHANGED recVars
  /\ UNCHANGED histVars
  /\ UNCHANGED cfgVars
  /\ UNCHANGED hookVars
  /\ UNCHANGED frameVars
  /\ UNCHANGED timerVars

NextRecorder ==
  \/ client_call
  \/ client_returns
  \/ start_recording_enter
  \/ start_recording_open
  \/ start_recording_set
  \/ start_max_duration_timer
  \/ \E t \in {"L", "W"} : Recorder(t)
  \/ Watchdog
  \/ audio_callback

InitRecorder ==
  /\ hk_is_recording = FALSE
  /\ pressed_keys = {}
  /\ listener = FALSE
  /\ hk_lock = "none"
  /\ is_recording = FALSE
  /\ stream = "none"
  /\ buffer = <<>>
  /\ timer_ref = FALSE
  /\ timer_armed = FALSE
  /\ lock = "none"
  /\ pc = [t \in Threads |-> "idle"]
  /\ seen = [t \in Threads |-> 0]
  /\ session = 0
  /\ artifacts = <<>>
  /\ cancelled = {}
  /\ sl_during_start = FALSE
  /\ trace = <<>>
  /\ held = {}
  /\ budget = MaxCalls
  /\ handed = {}
  /\ on_max_duration = "app"
  /\ swallowed = <<"none", FALSE>>
  /\ trace_frames = FALSE
  /\ origin = <<>>
  /\ total = <<>>
  /\ written = <<>>
  /\ timer_of = 0
  /\ w_timer = 0

SpecRecorder == InitRecorder /\ [][NextRecorder]_vars

\* ---------------------------------------------------- frame specification
\* The same caller and watchdog, with the origin of every buffered frame and
\* the content of every written file recorded.
InitFrames ==
  /\ hk_is_recording = FALSE
  /\ pressed_keys = {}
  /\ listener = FALSE
  /\ hk_lock = "none"
  /\ is_recording = FALSE
  /\ stream = "none"
  /\ buffer = <<>>
  /\ timer_ref = FALSE
  /\ timer_armed = FALSE
  /\ lock = "none"
  /\ pc = [t \in Threads |-> "idle"]
  /\ seen = [t \in Threads |-> 0]
  /\ session = 0
  /\ artifacts = <<>>
  /\ cancelled = {}
  /\ sl_during_start = FALSE
  /\ trace = <<>>
  /\ held = {}
  /\ budget = MaxCalls
  /\ handed = {}
  /\ on_max_duration = "app"
  /\ swallowed = <<"none", FALSE>>
  /\ trace_frames = TRUE
  /\ origin = <<>>
  /\ total = <<>>
  /\ written = <<>>
  /\ timer_of = 0
  /\ w_timer = 0

SpecFrames == InitFrames /\ [][NextRecorder]_vars

\* ------------------------------------------------- watchdog specification
\* The same caller, with the AudioRecorder constructed in each of the ways its
\* signature allows: no on_max_duration callback (the default), the
\* application's _on_max_duration, or a callback that fails when called.

InitWatchdog ==
  /\ hk_is_recording = FALSE
  /\ pressed_keys = {}
  /\ listener = FALSE
  /\ hk_lock = "none"
  /\ is_recording = FALSE
  /\ stream = "none"
  /\ buffer = <<>>
  /\ timer_ref = FALSE
  /\ timer_armed = FALSE
  /\ lock = "none"
  /\ pc = [t \in Threads |-> "idle"]
  /\ seen = [t \in Threads |-> 0]
  /\ session = 0
  /\ artifacts = <<>>
  /\ cancelled = {}
  /\ sl_during_start = FALSE
  /\ trace = <<>>
  /\ held = {}
  /\ budget = MaxWatchdogCalls
  /\ handed = {}
  /\ on_max_duration \in {"none", "app", "raises"}
  /\ swallowed = <<"none", FALSE>>
  /\ trace_frames = FALSE
  /\ origin = <<>>
  /\ total = <<>>
  /\ written = <<>>
  /\ timer_of = 0
  /\ w_timer = 0

NextWatchdog ==
  \/ NextRecorder
  \/ except_max_duration

SpecWatchdog == InitWatchdog /\ [][NextWatchdog]_vars

\* ---------------------------------------------------------------- properties

\* the signals the listener thread has emitted, oldest first
ListenerSignals == SelectSeq(trace, LAMBDA e : e[1] = "L")

LastListenerSignal ==
  IF ListenerSignals = <<>> THEN "none"
  ELSE ListenerSignals[Len(ListenerSignals)][2]

ArtifactsOf(s) == {i \in DOMAIN artifacts : artifacts[i][1] = s}

StopListeningReturned == pc["C"] \in {"cl_check", "ca_timer", "ca_stop", "ca_clear", "done"}

\* C1: a double stop is harmless: of two stop_recording calls for the same
\* recording session only one finalizes it, so no session yields more than one
\* saved file.
C1_AtMostOneArtifactPerSession ==
  \A s \in 1..session : Cardinality(ArtifactsOf(s)) <= 1

\* C2: once stop_listening has returned, the capture session is Inactive, also
\* when it ran while _on_press had armed the engine and was still in its
\* on_record_start callback.
C2_InactiveAfterStopListening ==
  (StopListeningReturned /\ sl_during_start) => ~is_recording

\* C3: once cancel_recording has been invoked for a recording session, no
\* file is ever saved for that session.
C3_NoArtifactOfCancelledSession ==
  \A i \in DOMAIN artifacts : artifacts[i][1] \notin cancelled

\* C4: a press event emits Activate iff the engine was Idle before it and the
\* event makes the pressed set become a superset of the combination, which it
\* was not before the event.
C4_ActivateIffBecomesSuperset ==
  [][\A key \in RawKeys :
       on_press(key) =>
         ((pc'["L"] = "lk_start") <=>
            (/\ ~hk_is_recording
             /\ ~(hotkey \subseteq pressed_keys)
             /\ hotkey \subseteq pressed_keys'))]_vars

\* C5: a release event emits Deactivate and makes the engine Idle iff the
\* engine is Armed and the normalized key belongs to the combination; every
\* other release emits nothing and leaves the engine state as it was.
C5_DeactivateIffArmedAndCombinationKey ==
  [][\A key \in RawKeys :
       on_release(key) =>
         IF hk_is_recording /\ normalize_key(key) \in hotkey
         THEN pc'["L"] = "lk_stop" /\ ~hk_is_recording'
         ELSE pc'["L"] = "idle" /\ hk_is_recording' = hk_is_recording]_vars

C5_Witness ==
  /\ pc["L"] = "cb_stop"
  /\ ~hk_is_recording
  /\ pressed_keys # {}

RECURSIVE Bracketed(_, _)
\* every Deactivate in s closes an Activate that nothing has closed yet
Bracketed(s, open) ==
  IF s = <<>> THEN TRUE
  ELSE CASE Head(s)[2] = "Activate" -> Bracketed(Tail(s), TRUE)
         [] Head(s)[2] = "Deactivate" -> open /\ Bracketed(Tail(s), FALSE)
         [] Head(s)[2] = "Cancel" -> Bracketed(Tail(s), FALSE)

\* C6: in the trace of invoked callbacks every Deactivate is preceded by an
\* Activate that no other Deactivate or Cancel has followed yet, also when
\* stop_listening races with the listener thread.
C6_DeactivateClosesOpenActivate ==
  Bracketed(trace, FALSE)

\* C7: a non-repeat ESC press while Armed makes the engine Idle and emits Cancel;
\* while Cancel is the listener's last signal the engine stays Idle, so a
\* release emits no Deactivate, and once the Cancel callback has returned
\* cancel_recording has run: the stream is closed and the buffer is empty.
C7_CancelPreemptsDeactivate ==
  /\ [][\A key \in RawKeys :
          (on_press(key) /\ hk_is_recording /\ key = Key_esc
             /\ normalize_key(key) \notin pressed_keys)
          => (pc'["L"] = "lk_cancel" /\ ~hk_is_recording')]_vars
  /\ [][\A key \in RawKeys :
          (on_release(key) /\ LastListenerSignal = "Cancel")
          => (pc'["L"] = "idle" /\ trace' = trace)]_vars
  /\ []((pc["L"] = "idle" /\ LastListenerSignal = "Cancel")
          => (buffer = <<>> /\ stream = "none" /\ ~is_recording))

C7_Witness ==
  /\ pc["L"] = "idle"
  /\ pc["C"] = "idle"
  /\ LastListenerSignal = "Cancel"
  /\ session \in cancelled
  /\ Key_esc \in pressed_keys
  /\ ~(hotkey \subseteq pressed_keys)

\* C8: after every sequence of press and release events the pressed set equals
\* the set of normalized keys that were pressed and not yet released (counted
\* from the last clear() of stop_listening), whatever the engine state.
C8_PressedSetIsHeldKeys ==
  pressed_keys = held

C8_Witness ==
  /\ pc["C"] = "idle"
  /\ budget <= MaxEvents - 3
  /\ held = {"alt"}
  /\ LastListenerSignal = "Deactivate"

\* C9: when a callback invoked by _on_press or _on_release has raised, the
\* handler ends in its except clause and returns to the listener with the
\* engine Idle.
C9_FailedCallbackLeavesIdle ==
  [][(pc["L"] \in {"exc_start", "exc_stop", "exc_cancel"} /\ pc'["L"] # pc["L"])
       => (pc'["L"] = "idle" /\ ~hk_is_recording')]_vars

C9_Witness ==
  /\ pc["L"] = "idle"
  /\ pc["C"] = "idle"
  /\ LastListenerSignal = "Activate"
  /\ ~hk_is_recording
  /\ hotkey \subseteq pressed_keys

\* C10: the audio callback appends a frame to the buffer only while the session
\* is Recording.
C10_FrameAppendedOnlyWhileRecording ==
  [][Len(buffer') > Len(buffer) => is_recording]_vars

Quiet(t) == \A u \in Threads \ {t} : pc[u] \in {"idle", "done"}

\* C12: a stop_recording or cancel_recording call entered while the session is
\* Inactive (no other operation in progress) disarms the watchdog on entry,
\* then returns normally without writing an artifact, and each of its steps
\* leaves the session Inactive with an empty buffer; this includes the call
\* that directly follows a first stop or cancel.
C12_StopAndCancelIdempotent ==
  /\ [][\A t \in Threads :
          ((stop_recording_timer(t) \/ cancel_recording_timer(t))
             /\ ~is_recording /\ Quiet(t))
          => /\ ~timer_armed' /\ ~timer_ref'
             /\ ~is_recording' /\ buffer' = <<>>
             /\ artifacts' = artifacts /\ cancelled' = cancelled]_vars
  /\ [][\A t \in Threads :
          (stop_recording_check(t) /\ ~is_recording /\ Quiet(t))
          => /\ pc'[t] = AfterStop(t)
             /\ artifacts' = artifacts
             /\ ~is_recording' /\ buffer' = <<>>
             /\ timer_armed' = timer_armed /\ timer_ref' = timer_ref]_vars
  /\ [][\A t \in Threads :
          (cancel_recording_stop(t) /\ ~is_recording /\ Quiet(t))
          => /\ ~is_recording' /\ buffer' = <<>> /\ stream' = "none"
             /\ artifacts' = artifacts
             /\ timer_armed' = timer_armed /\ timer_ref' = timer_ref]_vars
  /\ [][\A t \in Threads :
          (cancel_recording_clear(t) /\ ~is_recording /\ Quiet(t))
          => /\ pc'[t] = AfterCancel(t)
             /\ artifacts' = artifacts
             /\ ~is_recording' /\ buffer' = <<>>
             /\ timer_armed' = timer_armed /\ timer_ref' = timer_ref]_vars

C12_Witness ==
  /\ pc["L"] = "ret_stop"
  /\ seen["L"] = 0
  /\ seen["W"] = 1
  /\ Len(artifacts) = 1
  /\ Quiet("L")
  /\ ~is_recording /\ buffer = <<>> /\ ~timer_armed

\* C13: start_recording on a session that is already Recording ends in
\* RuntimeError and changes nothing: the session stays Recording, the buffered
\* frames, the open stream and the armed watchdog timer are as before.
C13_StartWhileRecordingChangesNothing ==
  [][(start_recording_enter /\ is_recording)
       => /\ pc'["L"] = "exc_start"
          /\ is_recording' /\ buffer' = buffer /\ stream' = stream
          /\ timer_ref' = timer_ref /\ timer_armed' = timer_armed
          /\ lock' = "none" /\ session' = session]_vars

C13_Witness ==
  /\ pc["L"] = "exc_start"
  /\ is_recording /\ stream = "active"
  /\ Len(buffer) >= 2
  /\ timer_armed /\ timer_ref
  /\ Quiet("L")

\* C14: when the audio source cannot be opened or started, start_recording
\* raises OSError to its caller, and at that point the session is Inactive and
\* no watchdog timer is armed.
C14_FailedStartInactiveAndUnarmed ==
  /\ [][(start_recording_open /\ pc'["L"] # "sr_set")
          => (pc'["L"] = "exc_device" /\ lock' = "none")]_vars
  /\ [](pc["L"] = "exc_device" => (~is_recording /\ ~timer_armed))

\* the one thread that ended the session has returned
EndReturned == \A t \in Threads : pc[t] = "idle"

\* C15: a session ended by the watchdog and a session ended by a manual stop,
\* with the same frames buffered, finish alike: the session is Inactive with
\* the stream closed, the buffer empty and the timer gone; a file is written
\* iff the save is attempted (the frames reach the minimum duration) and
\* succeeds, it holds every buffered byte, and it is handed to
\* _run_transcription; without a file nothing is handed on.
C15_WatchdogStopLikeManualStop ==
  /\ [](EndReturned
          => /\ ~is_recording /\ stream = "none" /\ buffer = <<>>
             /\ ~timer_armed /\ ~timer_ref
             /\ Len(artifacts) <= 1
             /\ handed = {<<"_run_transcription", artifacts[i][1]>> : i \in DOMAIN artifacts})
  /\ [][\A t \in {"L", "W"} :
          /\ stop_recording_duration(t)
               => ((pc'[t] = "st_save") <=> ~TooShort(buffer))
          /\ save_to_temp_file(t)
               => \/ artifacts' = <<<<session, SumLen(buffer)>>>>
                  \/ (artifacts' = <<>> /\ pc'[t] = AfterStop(t))]_vars

C15_Witness ==
  /\ EndReturned
  /\ seen["W"] = 1
  /\ hk_is_recording
  /\ artifacts = <<<<1, ThresholdBytes>>>>
  /\ handed = {<<"_run_transcription", 1>>}

\* the timer armed by the last start_recording has fired, its handler has
\* returned and no recorder call is in progress
WatchdogHandled ==
  /\ timer_ref /\ ~timer_armed
  /\ \A t \in Threads : pc[t] = "idle"

\* C16: no orphaned Recording state: once the watchdog armed by
\* start_recording has fired and its handler has returned, with no
\* stop_recording or cancel_recording from outside, the session is Inactive,
\* whether or not an on_max_duration callback was supplied.
C16_WatchdogForcesInactive == WatchdogHandled => ~is_recording

\* C17: when the on_max_duration callback raises, the handler logs the error
\* and returns, and the session is then Inactive with its stream closed.
C17_RaisingCallbackEndsInactive ==
  [][except_max_duration => (~is_recording' /\ stream' = "none")]_vars

\* positions whose next step acquires AudioRecorder._lock
NeedsRecorderLock == {"sr_enter", "st_check", "st_stop", "ca_stop", "w_check", "cl_check"}

\* C18: on_record_start, on_record_stop and on_cancel are invoked by a thread
\* that does not hold the engine lock, from _on_press, _on_release and
\* stop_listening alike: a thread that holds the engine lock is at the end of
\* its locked section, start_recording is entered without it, and no thread
\* holds it while it waits for the recorder lock.
C18_CallbacksOutsideEngineLock ==
  /\ [](\A t \in Threads : hk_lock = t => pc[t] \in DOMAIN AfterLock)
  /\ [](\A t \in Threads : pc[t] \in NeedsRecorderLock => hk_lock # t)
  /\ [][(call_on_record_start \/ call_on_record_stop \/ call_on_cancel
           \/ start_recording_enter) => hk_lock # "L"]_vars
  /\ [][stop_listening_callback => hk_lock # "C"]_vars

C18_Witness ==
  /\ pc["L"] = "sr_enter"
  /\ pc["C"] = "lk_sl"
  /\ hk_lock = "C"
  /\ LastListenerSignal = "Activate"

\* the step is taken by a thread that holds AudioRecorder._lock before or
\* after it
ByRecorderLockHolder ==
  \E t \in Threads : pc'[t] # pc[t] /\ (lock = t \/ lock' = t)

\* the step runs _stop_stream, which takes and releases the lock within it
InStopStream ==
  \E t \in Threads : stop_recording_stop(t) \/ cancel_recording_stop(t)

\* C19: every write to _is_recording and _stream and every mutation of the
\* capture buffer (append, reset, clear) is made by a thread holding the
\* AudioRecorder lock, and the watchdog handler inspects the session state
\* only once it has the lock.
C19_WritesUnderRecorderLock ==
  [][/\ (is_recording' # is_recording \/ stream' # stream)
          => (ByRecorderLockHolder \/ InStopStream)
     /\ (buffer' # buffer) => ByRecorderLockHolder
     /\ on_max_duration_reached => lock = "none"]_vars

C21_SwallowsExactlyCombinationKeys ==
  [][\A key \in RawKeys :
       intercept_event(key)
         => (swallowed'[2] <=> (hk_is_recording /\ normalize_key(key) \in hotkey))]_vars

\* C22: a press of the cancel key while Armed sets the engine Idle, selects
\* Cancel and leaves PressedSet empty; and PressedSet is empty after every
\* step that takes the engine from Armed to Idle.
C22_PressedSetEmptyWhenIdleEntered ==
  /\ [][\A key \in RawKeys :
          (on_press(key) /\ hk_is_recording /\ key = Key_esc
             /\ normalize_key(key) \notin pressed_keys)
          => (pc'["L"] = "lk_cancel" /\ ~hk_is_recording' /\ pressed_keys' = {})]_vars
  /\ [][(hk_is_recording /\ ~hk_is_recording') => pressed_keys' = {}]_vars

\* no start_recording, stop_recording or cancel_recording is in progress
NoOperationInProgress == \A t \in Threads : pc[t] \in AtRest

\* C23: whenever the session is Inactive and no start, stop or cancel
\* operation is in progress, the capture buffer is empty: no frames of a
\* finished or cancelled session survive into the next one.
C23_BufferEmptyWhenInactive ==
  (~is_recording /\ NoOperationInProgress) => buffer = <<>>

C23_Witness ==
  /\ ~is_recording /\ NoOperationInProgress
  /\ buffer = <<>>
  /\ session = 2
  /\ \E i \in DOMAIN artifacts : artifacts[i][1] = 1
  /\ cancelled = {2}

\* positions inside start_recording
InStartRecording == {"sr_enter", "sr_open", "sr_set", "sr_timer"}

\* positions of stop_recording after it has seen the session Recording
InStopRecording == {"st_stop", "st_dur", "st_discard", "st_save", "st_saved"}

\* the step with which a stop_recording that saw Recording returns
stop_recording_returns(t) ==
  \/ stop_recording_discard(t)
  \/ save_to_temp_file(t) /\ pc'[t] # "st_saved"
  \/ save_to_temp_file_clear(t)

\* the watchdog handler calls the on_max_duration callback
invokes_on_max_duration ==
  on_max_duration_reached /\ is_recording /\ on_max_duration # "none"

\* some stop_recording that saw session s Recording has returned
StopReturned(s) ==
  \E t \in Threads : seen[t] = s /\ pc[t] \notin InStopRecording

\* C24: stop_recording on a Recording session returns, on the too-short path
\* and on the artifact path, with the watchdog disarmed, the stream closed
\* and the session Inactive (no later start_recording having begun); and the
\* timer armed by that session's start_recording never invokes
\* on_max_duration after the stop has returned.
C24_StopDisarmsClosesAndSilencesWatchdog ==
  /\ [][\A t \in Threads :
          (stop_recording_returns(t) /\ session = seen[t]
             /\ pc["L"] \notin InStartRecording)
            => (~timer_armed' /\ stream' = "none" /\ ~is_recording')]_vars
  /\ [][invokes_on_max_duration
          => ~(w_timer # 0 /\ StopReturned(w_timer))]_vars

\* C25: the Activate callback has completed or failed before a later signal
\* is emitted or another context changes the engine state: no Deactivate
\* callback (from _on_release or from stop_listening) starts, and the control
\* thread does not change the engine state, while on_record_start is running
\* on the listener thread.
C25_ActivateCompletesBeforeDeactivate ==
  [][(\/ call_on_record_stop
      \/ stop_listening_callback
      \/ (stop_listening_lock /\ hk_is_recording' # hk_is_recording))
       => pc["L"] \notin InOnRecordStart]_vars

\* Deactivate callbacks invoked by stop_listening so far
ControlDeactivates ==
  Len(SelectSeq(trace, LAMBDA e : e = <<"C", "Deactivate">>))

\* C26: stop_listening while Armed sets the engine Idle, clears PressedSet and
\* invokes the Deactivate callback exactly once, with the listener still
\* attached, and detaches only afterwards; while Idle it clears PressedSet and
\* emits no signal; with no listener attached it changes nothing.
C26_StopListeningSynthesizesOneDeactivate ==
  /\ [][stop_listening_lock
          => IF hk_is_recording
             THEN /\ ~hk_is_recording' /\ pressed_keys' = {}
                  /\ pc'["C"] = "lk_sl" /\ listener' /\ trace' = trace
             ELSE /\ ~hk_is_recording' /\ pressed_keys' = {}
                  /\ pc'["C"] = "sl_detach" /\ listener' /\ trace' = trace]_vars
  /\ [][stop_listening_callback
          => /\ listener /\ listener'
             /\ ControlDeactivates = 0
             /\ trace' = Append(trace, <<"C", "Deactivate">>)]_vars
  /\ [][(pc'["C"] # pc["C"] /\ trace' # trace) => stop_listening_callback]_vars
  /\ [][stop_listening_detach
          => (listener /\ ~listener' /\ trace' = trace)]_vars
  /\ [](pc["C"] \in {"lk_sl", "sl_cb"} => (listener /\ ControlDeactivates = 0))
  /\ [](pc["C"] \in InStopRecording \cup {"st_timer", "st_check", "sl_path"}
          => (listener /\ ControlDeactivates = 1))
  /\ [][stop_listening_none => UNCHANGED vars]_vars

C26_Witness ==
  /\ pc["C"] = "done"
  /\ ~listener
  /\ ControlDeactivates = 1
  /\ ~hk_is_recording /\ pressed_keys = {}
  /\ \E i \in DOMAIN artifacts : artifacts[i][1] = seen["C"]

\* C27: a press whose normalized key is already in PressedSet is a no-op, in
\* Idle and in Armed: no callback is selected, no signal is emitted, and
\* PressedSet and the engine state are unchanged.
C27_RepeatedPressIsNoOp ==
  [][\A key \in RawKeys :
       (on_press(key) /\ normalize_key(key) \in pressed_keys)
         => /\ pressed_keys' = pressed_keys
            /\ hk_is_recording' = hk_is_recording
            /\ hk_lock' = hk_lock
            /\ pc' = pc
            /\ trace' = trace]_vars

\* every key event was delivered, one Activate and one Cancel were emitted,
\* and the engine is Idle with the combination and the cancel key still in
\* PressedSet: the last event was a repeat (or a release of a key not held)
C27_Witness ==
  /\ budget = 0
  /\ pc["L"] = "idle"
  /\ ~hk_is_recording
  /\ pressed_keys = {"alt", "space", "esc"}
  /\ held = pressed_keys
  /\ ListenerSignals = <<<<"L", "Activate">>, <<"L", "Cancel">>>>

\* C28: a press event selects at most one callback: Cancel only from Armed and
\* only for the cancel key, where it wins over the combination check;
\* Activate only from Idle; a cancel-key press while Idle selects no Cancel;
\* and the listener emits a signal only in the one call step that follows.
C28_PressEmitsAtMostOneSignal ==
  /\ [][\A key \in RawKeys :
          on_press(key)
            => /\ pc'["L"] \in {"idle", "lk_cancel", "lk_start"}
               /\ trace' = trace
               /\ (pc'["L"] = "lk_cancel" =>
                     (hk_is_recording /\ key = Key_esc /\ ~hk_is_recording'))
               /\ (pc'["L"] = "lk_start" =>
                     (~hk_is_recording /\ hk_is_recording'))
               /\ ((hk_is_recording /\ key = Key_esc
                      /\ normalize_key(key) \notin pressed_keys)
                     => pc'["L"] = "lk_cancel")
               /\ ((~hk_is_recording /\ key = Key_esc)
                     => (pc'["L"] # "lk_cancel" /\ trace' = trace))]_vars
  /\ [][(trace' # trace /\ pc'["L"] # pc["L"])
          => /\ pc["L"] \in {"cb_start", "cb_cancel", "cb_stop"}
             /\ Len(trace') = Len(trace) + 1]_vars
  /\ [](Len(ListenerSignals) <= MaxKeyEvents - budget)

C28_Witness ==
  /\ pressed_keys = {"esc"}
  /\ ~hk_is_recording
  /\ pc["L"] = "idle"
  /\ trace = <<>>
  /\ budget = MaxKeyEvents - 1

\* C29: a press or release of a left/right variant of a modifier is the same
\* step as a press or release of the canonical key: same PressedSet, same
\* selected callback; a variant completes a combination containing the
\* canonical modifier, and releasing a variant while Armed selects Deactivate.
C29_VariantsActAsCanonicalKey ==
  /\ [][\A v \in DOMAIN KEY_NORMALIZATIONS :
          /\ on_press(v) => on_press(KEY_NORMALIZATIONS[v])
          /\ on_release(v) => on_release(KEY_NORMALIZATIONS[v])
          /\ (on_press(v) /\ ~hk_is_recording
                /\ KEY_NORMALIZATIONS[v] \notin pressed_keys
                /\ hotkey \ {KEY_NORMALIZATIONS[v]} \subseteq pressed_keys)
               => (pc'["L"] = "lk_start" /\ hk_is_recording')
          /\ (on_release(v) /\ hk_is_recording /\ KEY_NORMALIZATIONS[v] \in hotkey)
               => (pc'["L"] = "lk_stop" /\ ~hk_is_recording'
                   /\ KEY_NORMALIZATIONS[v] \notin pressed_keys')]_vars
  /\ [](pressed_keys \cap DOMAIN KEY_NORMALIZATIONS = {})

\* three events on the sided keyboard: a variant and space pressed, the variant
\* released while Armed; Activate and Deactivate were emitted
C29_Witness ==
  /\ budget = MaxKeyEvents - 3
  /\ pressed_keys = {"space"}
  /\ ~hk_is_recording
  /\ pc["L"] = "idle"
  /\ ListenerSignals = <<<<"L", "Activate">>, <<"L", "Deactivate">>>>

\* C30: a watchdog timer armed by one recording session never ends a later
\* session: when _on_max_duration_reached invokes on_max_duration, the timer
\* that fired is the one armed by the session that is recording now.
C30_TimerEndsOnlyItsOwnSession ==
  [][invokes_on_max_duration => w_timer = session]_vars

\* C31: no capture stream is leaked: whenever the session is Inactive and no
\* operation is in progress no stream handle is held, and start_recording
\* opens a stream only when the previous one has been closed.
C31_NoStreamLeaked ==
  /\ []((~is_recording /\ NoOperationInProgress) => stream = "none")
  /\ [][(start_recording_open /\ pc'["L"] = "sr_set") => stream = "none"]_vars

\* the watchdog's stop_recording found the current session Recording and has
\* returned
AutoStopped ==
  /\ session > 0
  /\ seen["W"] = session
  /\ pc["W"] \notin InStopRecording \cup {"w_check", "st_timer", "st_check"}

\* inside the handling of a Deactivate or a Cancel, from the decision under the
\* engine lock to the return of on_record_stop / on_cancel, on a path where
\* stop_recording did not find the session Recording
InDeactivateOrCancel ==
  {"lk_stop", "cb_stop", "lk_sl", "sl_cb", "st_timer", "st_check", "ret_stop",
   "exc_stop", "lk_cancel", "cb_cancel", "ca_timer", "ca_stop", "ca_clear",
   "ret_cancel", "exc_cancel"}

\* C32: after the watchdog has auto-stopped a session the recorder is
\* Inactive; no step of the watchdog changes the engine, which (its Activate
\* handler having returned) leaves Armed only by the release of a combination
\* key, by an escape press or by stop_listening at shutdown; the stop_recording of the Deactivate that follows finds the
\* recorder Inactive and returns nothing, the cancel_recording of the Cancel
\* that follows leaves it Inactive, and neither adds an artifact or a
\* transcription.
C32_DeactivateAfterAutoStopIsHarmless ==
  /\ [](AutoStopped => ~is_recording)
  /\ [][pc'["W"] # pc["W"] => UNCHANGED hkVars]_vars
  /\ [][(AutoStopped /\ hk_is_recording /\ pc["L"] = "idle" /\ ~hk_is_recording')
          => \/ \E key \in RawKeys :
                  on_release(key) /\ normalize_key(key) \in hotkey
             \/ on_press(Key_esc)
             \/ stop_listening_lock]_vars
  /\ [][\A t \in {"L", "C"} :
          (AutoStopped /\ stop_recording_check(t))
            => (pc'[t] = AfterStop(t) /\ seen'[t] = seen[t])]_vars
  /\ [][\A t \in {"L", "C"} :
          (AutoStopped /\ pc[t] \in InDeactivateOrCancel /\ pc'[t] # pc[t])
            => (artifacts' = artifacts /\ handed' = handed
                /\ is_recording' = is_recording)]_vars

\* the watchdog saved session 1 and handed it on; the Deactivate of the
\* release that followed found the recorder Inactive (the listener's
\* stop_recording never saw a session Recording) and returned
C32_Witness ==
  /\ AutoStopped
  /\ session = 1
  /\ seen["L"] = 0
  /\ pc["L"] = "idle"
  /\ pc["W"] = "idle"
  /\ ~hk_is_recording
  /\ ListenerSignals = <<<<"L", "Activate">>, <<"L", "Deactivate">>>>
  /\ Len(artifacts) = 1
  /\ handed = {<<downstream("W"), 1>>}

\* on_record_start returns without a recording: accessibility denied, or the
\* OSError of start_recording caught by the app
FailedStart ==
  \/ call_on_record_start /\ pc'["L"] = "idle"
  \/ except_device_error

\* C33: when Activate arrives but recording cannot begin, on_record_start
\* returns normally with the recorder Inactive and the engine Armed (unless
\* stop_listening has begun and already made its own Deactivate); the
\* Deactivate or Cancel that follows is accepted, its stop_recording or
\* cancel_recording finds the recorder Inactive and returns without raising,
\* no artifact is written or handed on, and the engine is Idle and the
\* recorder Inactive when the handler returns.
C33_FailedStartThenDeactivateIsClean ==
  /\ [][FailedStart
          => (pc'["L"] = "idle" /\ ~is_recording' /\ artifacts' = artifacts
              /\ (pc["C"] = "idle" => hk_is_recording'))]_vars
  /\ [][(hk_is_recording /\ ~is_recording /\ pc["L"] = "idle")
          => /\ \A key \in RawKeys :
                  (on_release(key) /\ normalize_key(key) \in hotkey)
                    => (pc'["L"] = "lk_stop" /\ ~hk_is_recording')
             /\ (on_press(Key_esc) /\ Key_esc \notin pressed_keys)
                  => (pc'["L"] = "lk_cancel" /\ ~hk_is_recording')]_vars
  /\ [][(pc["L"] \in InDeactivateOrCancel /\ ~is_recording /\ pc'["L"] # pc["L"])
          => /\ pc'["L"] \in InDeactivateOrCancel \cup {"idle"}
             /\ ~is_recording' /\ ~hk_is_recording'
             /\ artifacts' = artifacts /\ handed' = handed]_vars

\* no session ever began, yet an Activate and then a Deactivate were handled:
\* the start failed with the engine Armed, and the release that followed
\* returned with the engine Idle and nothing written
C33_Witness ==
  /\ session = 0
  /\ ListenerSignals = <<<<"L", "Activate">>, <<"L", "Deactivate">>>>
  /\ pc["L"] = "idle"
  /\ ~hk_is_recording
  /\ ~is_recording
  /\ artifacts = <<>>
  /\ handed = {}

\* _save_to_temp_file took its except OSError branch
save_fails(t) == save_to_temp_file(t) /\ artifacts' = artifacts

\* C34: if writing the artifact fails for a session of sufficient duration,
\* stop_recording returns nothing instead of raising, the buffer is cleared
\* and the session is Inactive with its stream closed and watchdog disarmed.
C34_FailedSaveReturnsNothing ==
  [][\A t \in Threads :
       save_fails(t)
         => /\ ~TooShort(buffer)
            /\ pc'[t] = AfterStop(t)
            /\ buffer' = <<>>
            /\ ~is_recording' /\ stream' = "none" /\ ~timer_armed']_vars

\* the frames the stream of session s has delivered, in delivery order
FramesOf(s) == [k \in 1..total[s] |-> <<s, k>>]

\* C35: the artifact returned by stop_recording contains exactly the frames
\* delivered between that session's start_recording and its stop, in delivery
\* order, each once; no frame of another session appears in it.
C35_ArtifactHoldsExactlyItsSessionFrames ==
  \A i \in DOMAIN artifacts : written[i] = FramesOf(artifacts[i][1])

\* the Activate signals the listener has emitted
Activations == SelectSeq(ListenerSignals, LAMBDA e : e[2] = "Activate")

\* C36: activation does not depend on press order: from Idle with an empty
\* PressedSet, while the combination keys are pressed in any order (and none
\* is released) and other keys are pressed and released, no Activate is
\* selected before the combination is complete, the press that completes it
\* selects Activate, and Activate is emitted exactly once.
C36_ActivateOnceInAnyOrder ==
  /\ [][\A key \in RawKeys :
          on_press(key)
            => /\ (~(hotkey \subseteq pressed_keys') => pc'["L"] # "lk_start")
               /\ (~(hotkey \subseteq pressed_keys) /\ hotkey \subseteq pressed_keys')
                    => (pc'["L"] = "lk_start" /\ hk_is_recording')]_vars
  /\ [](Len(Activations) <= 1)

====
